---- MODULE Spec2Model ----
(***************************************************************************)
(* DS18B20 1-Wire driver (Src/ds18b20.c, Inc/ds18b20.h).                   *)
(*                                                                         *)
(* The model covers the ROM search engine (onewireSearchInit, searchNext,  *)
(* searchDevices), the enumeration entry point DS18B20_Search and the      *)
(* read-out entry point DS18B20_GetTemp, the CRC functions crcGenerator    *)
(* and addressValid, on top of the slot primitives                         *)
(* DS18B20_Start, DS18B20_read, DS18B20_write0/1, DS18B20_writeData and    *)
(* DS18B20_readByte.  Time is abstracted to the order of bus slots: every  *)
(* primitive appends the slot it performs to the transaction log.          *)
(*                                                                         *)
(* Numbers: a uint8_t is an integer 0..255; a uint64_t is its eight        *)
(* base-256 digits, most significant first (index 1 = bits 63..56).        *)
(***************************************************************************)
EXTENDS Integers, Sequences, FiniteSets, TLC

\* ------------------------------------------------------------------------
\* Program constants (Inc/ds18b20.h)
SEARCH_ROM == 240

MATCH_ROM == 85

CONVERT_T == 68

READ_SCRATCHPAD == 190

\* ------------------------------------------------------------------------
\* Bounds of the model
\* largest number of devices placed on the bus
MaxDevices == 4

\* number of discoveries after which the cycle-by-cycle caller stops calling
MaxFound == 6

\* number of passes of the loop of DS18B20_GetTemp that are followed
MaxPasses == 258

\* number of times the devices of one run may fail to answer (a missed
\* presence pulse, or falling silent inside a search cycle)
MaxFaults == 1

\* largest number of non-zero addresses handed to DS18B20_GetTemp
MaxArr == 2

\* largest device count the caller of DS18B20_Search sized its array for
MaxExpected == 1

\* ------------------------------------------------------------------------
\* Bit arithmetic on uint8_t
Bit(v, k) == (v \div (2^k)) % 2

RECURSIVE OrFrom(_, _, _)
OrFrom(a, b, k) == IF k = 8 THEN 0 ELSE (IF Bit(a, k) = 1 \/ Bit(b, k) = 1 THEN 2^k ELSE 0) + OrFrom(a, b, k + 1)

\* (uint8_t)(a | b) for a in 0..255 and an int b >= 0
Or8(a, b) == OrFrom(a, b % 256, 0)

\* a & (1 << k)
AndMask(a, k) == Bit(a, k) * (2^k)

\* (uint8_t)(a & ~(1 << k))
ClearBit(a, k) == a - AndMask(a, k)

\* the number of values of a uint8_t (index and count of DS18B20_Search,
\* count of DS18B20_GetTemp)
CountRange == 256

Zero8 == <<0, 0, 0, 0, 0, 0, 0, 0>>

\* ------------------------------------------------------------------------
\* The bus.  A device is its 8-byte ROM code in the layout of
\* onewire_search_state_t.address: search bit position p is bit p%8 of
\* byte p/8.  bus.active holds the devices taking part in the running
\* search cycle, each as its 64 bits in search order.  line = "normal": the
\* pull-up keeps the line high unless a device pulls it low; line =
\* "stuck_low": every sample reads low.
\* dropAt is the search bit position from which the devices stop answering
\* (64: they answer throughout).
DevBit(d, p) == Bit(d[(p \div 8) + 1], p % 8)

\* the 64 bits of a ROM code in search order
BitsOfRom(d) == [p \in 0..63 |-> DevBit(d, p)]

NoDrop == 64

Responders(bus, p) == IF p >= bus.dropAt THEN {} ELSE bus.active

\* The level HAL_GPIO_ReadPin returns in a read slot of a search cycle.
\* compl = 0: the devices send their bit; compl = 1: its complement.
\* A device sending 0 pulls the line low (wired AND).
SampleSearch(bus, p, compl) == IF bus.line = "stuck_low" THEN 0 ELSE IF \E d \in Responders(bus, p) : d[p] = compl THEN 0 ELSE 1

\* DS18B20_read in a search cycle: the sampled bit, and the slot logged
DS18B20_read(bus, p, compl) == LET bit == SampleSearch(bus, p, compl) IN [bit |-> bit, bus |-> [bus EXCEPT !.log = Append(@, <<"r", bit>>)]]

\* DS18B20_write0 / DS18B20_write1: one write slot; in a search cycle the
\* devices whose bit p differs from the written bit leave the cycle
DS18B20_write0(bus, p) == [bus EXCEPT !.log = Append(@, <<"w", 0>>), !.active = {d \in Responders(bus, p) : d[p] = 0}]

DS18B20_write1(bus, p) == [bus EXCEPT !.log = Append(@, <<"w", 1>>), !.active = {d \in Responders(bus, p) : d[p] = 1}]

\* DS18B20_writeData: eight write slots, least significant bit first; slot
\* i is a write1 when (data & (1 << i)) == (1 << i)
DS18B20_writeData(log, data) == log \o [k \in 1..8 |-> <<"w", IF AndMask(data, k - 1) = 2^(k - 1) THEN 1 ELSE 0>>]

\* DS18B20_readByte: eight read slots, value |= bit << i.  bits[i+1] is the
\* level sampled in slot i.
RECURSIVE readByteFrom(_, _, _)
readByteFrom(value, bits, i) == IF i = 8 THEN value ELSE readByteFrom(Or8(value, bits[i + 1] * (2^i)), bits, i + 1)

\* DS18B20_readByte with the first bit read taken as the most significant
readByteMsbFirst(bits) == bits[8] + 2 * bits[7] + 4 * bits[6] + 8 * bits[5] + 16 * bits[4] + 32 * bits[3] + 64 * bits[2] + 128 * bits[1]

DS18B20_readByte(bits) == readByteFrom(0, bits, 0)

\* the eight read slots of a DS18B20_readByte call in the log
logReads(log, bits) == log \o [k \in 1..8 |-> <<"r", bits[k]>>]

\* DS18B20_Start: reset pulse, then sample; line low = presence (1)
DS18B20_Start(level) == IF level = 0 THEN 1 ELSE 0

\* ------------------------------------------------------------------------
\* onewireSearchInit
onewireSearchInit == [last_zero_branch |-> -1, done |-> FALSE, address |-> Zero8]

\* conflictBit with the branch at last_zero_branch not flipped: sends zero
\* again where the previous search chose zero
conflictBitNoFlip(state, bitPosition) ==
  LET byteIndex == bitPosition \div 8
      bitIndex == bitPosition % 8
  IN IF bitPosition < state.last_zero_branch THEN AndMask(state.address[byteIndex + 1], bitIndex)
     ELSE 0

\* searchNext, case kConflict: the bit to write at a conflict
conflictBit(state, bitPosition) ==
  LET byteIndex == bitPosition \div 8
      bitIndex == bitPosition % 8
  IN IF bitPosition = state.last_zero_branch THEN 1
     ELSE IF bitPosition < state.last_zero_branch THEN AndMask(state.address[byteIndex + 1], bitIndex)
     ELSE 0

\* storeBit with the byte index taken from the bit index
storeBitWrongByte(address, bitPosition, bitValue) ==
  LET byteIndex == bitPosition % 8
      bitIndex == bitPosition % 8
  IN IF bitValue = 0 THEN [address EXCEPT ![byteIndex + 1] = ClearBit(@, bitIndex)]
     ELSE [address EXCEPT ![byteIndex + 1] = Or8(@, bitValue * (2^bitIndex))]

\* storeBit that sets a one and leaves a zero as the buffer had it
storeBitNoClear(address, bitPosition, bitValue) ==
  LET byteIndex == bitPosition \div 8
      bitIndex == bitPosition % 8
  IN IF bitValue = 0 THEN address
     ELSE [address EXCEPT ![byteIndex + 1] = Or8(@, bitValue * (2^bitIndex))]

\* searchNext, "Write bit into address"
storeBit(address, bitPosition, bitValue) ==
  LET byteIndex == bitPosition \div 8
      bitIndex == bitPosition % 8
  IN IF bitValue = 0 THEN [address EXCEPT ![byteIndex + 1] = ClearBit(@, bitIndex)]
     ELSE [address EXCEPT ![byteIndex + 1] = Or8(@, bitValue * (2^bitIndex))]

\* writeBit that sends a zero whatever the bit
writeBitAlwaysZero(bus, bitPosition, bitValue) == DS18B20_write0(bus, bitPosition)

\* searchNext, "Write bit to the bus"
writeBit(bus, bitPosition, bitValue) == IF bitValue = 0 THEN DS18B20_write0(bus, bitPosition) ELSE DS18B20_write1(bus, bitPosition)

\* faultReturn with the error value searchDevices uses
faultReturnOne == 1

\* what searchNext returns at a (1,1) reading: "return false"
faultReturn == 0

\* what searchNext returns after 64 bits: "return 0"
okReturn == 0

\* one pass of the for loop of searchNext at bitPosition.  c holds the bus,
\* the search state, loc = locallast_zero_branch, and aborted/at: whether
\* and where the function returned from inside the loop.
searchBit(c, bitPosition) ==
  LET r1 == DS18B20_read(c.bus, bitPosition, 0)
      r2 == DS18B20_read(r1.bus, bitPosition, 1)
      reading == r1.bit + 2 * r2.bit
      bitValue == IF reading = 0 THEN conflictBit(c.state, bitPosition) ELSE reading % 2
  IN IF reading = 3 THEN [bus |-> r2.bus, state |-> c.state, loc |-> c.loc, aborted |-> TRUE, at |-> bitPosition]
     ELSE [bus |-> writeBit(r2.bus, bitPosition, bitValue),
           state |-> [c.state EXCEPT !.address = storeBit(@, bitPosition, bitValue)],
           loc |-> IF reading = 0 /\ bitValue = 0 THEN bitPosition ELSE c.loc,
           aborted |-> FALSE, at |-> 64]

\* the for loop of searchNext from bitPosition on
RECURSIVE searchLoop(_, _)
searchLoop(c, bitPosition) == IF c.aborted \/ bitPosition = 64 THEN c ELSE searchLoop(searchBit(c, bitPosition), bitPosition + 1)

\* searchNext that clears last_zero_branch when it marks the search done
searchNextResetsBranch(bus, state) ==
  LET r == searchLoop([bus |-> bus, state |-> state, loc |-> -1, aborted |-> FALSE, at |-> 64], 0)
  IN IF r.aborted THEN [bus |-> r.bus, state |-> r.state, ret |-> faultReturn, completed |-> FALSE, at |-> r.at]
     ELSE [bus |-> r.bus,
           state |-> IF r.loc = -1 THEN [r.state EXCEPT !.done = TRUE, !.last_zero_branch = -1] ELSE [r.state EXCEPT !.last_zero_branch = r.loc],
           ret |-> okReturn, completed |-> TRUE, at |-> 64]

searchNext(bus, state) ==
  LET r == searchLoop([bus |-> bus, state |-> state, loc |-> -1, aborted |-> FALSE, at |-> 64], 0)
  IN IF r.aborted THEN [bus |-> r.bus, state |-> r.state, ret |-> faultReturn, completed |-> FALSE, at |-> r.at]
     ELSE [bus |-> r.bus,
           state |-> IF r.loc = -1 THEN [r.state EXCEPT !.done = TRUE] ELSE [r.state EXCEPT !.last_zero_branch = r.loc],
           ret |-> okReturn, completed |-> TRUE, at |-> 64]

\* searchDevices that calls DS18B20_Start before it looks at state.done
searchDevicesResetFirst(bus0, level, command, state) ==
  IF DS18B20_Start(level) = 0 \/ state.done THEN [bus |-> [bus0 EXCEPT !.log = <<<<"reset", DS18B20_Start(level)>>>>], state |-> state, ret |-> 1, completed |-> FALSE, at |-> -1]
  ELSE searchNext([bus0 EXCEPT !.log = DS18B20_writeData(<<<<"reset", 1>>>>, command)], state)

\* searchDevices that sends the command whatever DS18B20_Start returned
searchDevicesWriteAnyway(bus0, level, command, state) ==
  IF state.done THEN [bus |-> bus0, state |-> state, ret |-> 1, completed |-> FALSE, at |-> -1]
  ELSE IF DS18B20_Start(level) = 0 THEN [bus |-> [bus0 EXCEPT !.log = DS18B20_writeData(<<<<"reset", 0>>>>, command)], state |-> state, ret |-> 1, completed |-> FALSE, at |-> -1]
  ELSE searchNext([bus0 EXCEPT !.log = DS18B20_writeData(<<<<"reset", 1>>>>, command)], state)

\* searchDevices(sensor, command, state).  level is the line level sampled
\* by DS18B20_Start when it is called; bus0 the bus at the start of the call
\* with an empty log.
searchDevices(bus0, level, command, state) ==
  IF state.done THEN [bus |-> bus0, state |-> state, ret |-> 1, completed |-> FALSE, at |-> -1]
  ELSE IF DS18B20_Start(level) = 0 THEN [bus |-> [bus0 EXCEPT !.log = <<<<"reset", 0>>>>], state |-> state, ret |-> 1, completed |-> FALSE, at |-> -1]
  ELSE searchNext([bus0 EXCEPT !.log = DS18B20_writeData(<<<<"reset", 1>>>>, command)], state)

\* ------------------------------------------------------------------------
\* uint64_t values as eight base-256 digits, most significant first
Or64(x, y) == [k \in 1..8 |-> Or8(x[k], y[k])]

\* search_state.address[i] << sh, an int expression, converted to uint64_t.
\* The operand is promoted to a 32-bit int.  sh < 32: the 32-bit pattern,
\* sign-extended when bit 31 is set.  sh >= 32 is undefined: ub = "zero" is
\* the build where the shift yields 0, ub = "mod32" the build where the
\* shift count is taken modulo 32.
ShlInt(a, sh, ub) ==
  LET eff == IF sh < 32 THEN sh ELSE IF ub = "mod32" THEN sh - 32 ELSE -1
  IN IF eff = -1 THEN Zero8
     ELSE [k \in 1..8 |-> IF k = 8 - (eff \div 8) THEN a ELSE IF eff = 24 /\ a >= 128 /\ k < 5 THEN 255 ELSE 0]

OversizeShift == {"zero", "mod32"}

\* DS18B20_Search: ROM_codes_array[index] = 0; for i: |= address[i] << 8*(7-i)
RECURSIVE packFrom(_, _, _, _)
packFrom(acc, address, ub, i) == IF i = 8 THEN acc ELSE packFrom(Or64(acc, ShlInt(address[i + 1], 8 * (7 - i), ub)), address, ub, i + 1)

Pack64(address, ub) == packFrom(Zero8, address, ub, 0)

\* DS18B20_GetTemp: (ROM_codes_array[count] >> sh) & 0xFF, sh a multiple of 8
ShrByte(v, sh) == v[8 - (sh \div 8)]

\* romShift sending the least significant byte first
romShiftLsbFirst(i) == 8 * i

\* the shift DS18B20_GetTemp uses for address byte i
romShift(i) == 8 * (7 - i)

\* DS18B20_GetTemp: the eight DS18B20_writeData calls sending the ROM code
RECURSIVE sendRomFrom(_, _, _)
sendRomFrom(log, v, i) == IF i = 8 THEN log ELSE sendRomFrom(DS18B20_writeData(log, ShrByte(v, romShift(i))), v, i + 1)

sendRom(log, v) == sendRomFrom(log, v, 0)

\* DS18B20_GetTemp: (((byte_2 << 8)) | byte_1) >> 4, stored in a uint16_t
rawToTemp(byte_1, byte_2) == ((byte_2 * 256 + byte_1) \div 16) % 65536

\* ------------------------------------------------------------------------
\* CRC and address validation
RECURSIVE XorFrom(_, _, _)
XorFrom(a, b, k) == IF k = 8 THEN 0 ELSE (IF Bit(a, k) # Bit(b, k) THEN 2^k ELSE 0) + XorFrom(a, b, k + 1)

\* a ^ b on uint8_t
Xor8(a, b) == XorFrom(a, b, 0)

\* crcGenerator: const uint8_t crc8_table[256]; entry i is at index i + 1
crc8_table ==
  <<0, 94, 188, 226, 97, 63, 221, 131, 194, 156, 126, 32, 163, 253, 31, 65,
    157, 195, 33, 127, 252, 162, 64, 30, 95, 1, 227, 189, 62, 96, 130, 220,
    35, 125, 159, 193, 66, 28, 254, 160, 225, 191, 93, 3, 128, 222, 60, 98,
    190, 224, 2, 92, 223, 129, 99, 61, 124, 34, 192, 158, 29, 67, 161, 255,
    70, 24, 250, 164, 39, 121, 155, 197, 132, 218, 56, 102, 229, 187, 89, 7,
    219, 133, 103, 57, 186, 228, 6, 88, 25, 71, 165, 251, 120, 38, 196, 154,
    101, 59, 217, 135, 4, 90, 184, 230, 167, 249, 27, 69, 198, 152, 122, 36,
    248, 166, 68, 26, 153, 199, 37, 123, 58, 100, 134, 216, 91, 5, 231, 185,
    140, 210, 48, 110, 237, 179, 81, 15, 78, 16, 242, 172, 47, 113, 147, 205,
    17, 79, 173, 243, 112, 46, 204, 146, 211, 141, 111, 49, 178, 236, 14, 80,
    175, 241, 19, 77, 206, 144, 114, 44, 109, 51, 209, 143, 12, 82, 176, 238,
    50, 108, 142, 208, 83, 13, 239, 177, 240, 174, 76, 18, 145, 207, 45, 115,
    202, 148, 118, 40, 171, 245, 23, 73, 8, 86, 180, 234, 105, 55, 213, 139,
    87, 9, 235, 181, 54, 104, 138, 212, 149, 203, 41, 119, 244, 170, 72, 22,
    233, 183, 85, 11, 136, 214, 52, 106, 43, 117, 151, 201, 74, 20, 246, 168,
    116, 42, 200, 150, 21, 75, 169, 247, 182, 232, 10, 84, 215, 137, 107, 53>>

\* crcGenerator that does not fold in the running CRC
crcGeneratorNoInit(initial_crc, input) == crc8_table[input + 1]

\* crcGenerator: index = input ^ initial_crc; return crc8_table[index]
crcGenerator(initial_crc, input) == crc8_table[Xor8(input, initial_crc) + 1]

\* addressValid: the for loop over ROM_code[0..6]
RECURSIVE crcLoop(_, _, _, _)
crcLoop(initial_crc, ROM_code, i, n) == IF i = n THEN initial_crc ELSE crcLoop(crcGenerator(initial_crc, ROM_code[i + 1]), ROM_code, i + 1, n)

\* addressValid that folds in six bytes
addressValidSixBytes(ROM_code) == IF crcLoop(0, ROM_code, 0, 6) # ROM_code[8] THEN 1 ELSE 0

\* addressValid: 0 when the computed CRC equals ROM_code[7], 1 otherwise
addressValid(ROM_code) == IF crcLoop(0, ROM_code, 0, 7) # ROM_code[8] THEN 1 ELSE 0

\* ------------------------------------------------------------------------
\* Devices and inputs
\* byte 0 and byte 7 of the ROM codes placed on the bus; bytes 1..6 are fixed
RomEnds == {<<0, 0>>, <<2, 0>>, <<6, 0>>, <<10, 0>>, <<2, 128>>, <<10, 128>>}

Universe == {<<e[1], 90, 0, 255, 16, 0, 1, e[2]>> : e \in RomEnds}

Populations == {S \in SUBSET Universe : Cardinality(S) <= MaxDevices}

\* search bit positions at which the devices may fall silent
DropPositions == {2, 63}

\* scratchpad bytes 0 and 1 a device may send
ScratchPairs == {<<145, 1>>, <<144, 252>>, <<0, 0>>}

\* the bits a device sends for byte b, least significant first
BitsOf(b) == [i \in 1..8 |-> Bit(b, i - 1)]

\* zero-terminated address arrays handed to DS18B20_GetTemp: k non-zero
\* addresses, the terminator, and one entry behind it
ArrayAddrs == {<<2, 90, 0, 255, 16, 0, 1, 128>>, <<10, 90, 0, 255, 16, 0, 1, 0>>}

RECURSIVE AddrSeqs(_)
AddrSeqs(k) == IF k = 0 THEN {<<>>} ELSE {Append(s, a) : s \in AddrSeqs(k - 1), a \in ArrayAddrs}

TempArrays == UNION {{s \o <<Zero8, t>> : s \in AddrSeqs(k), t \in {Zero8, <<6, 90, 0, 255, 16, 0, 1, 0>>}} : k \in 0..MaxArr}

ArrayOf(s) == [i \in 0..(Len(s) - 1) |-> s[i + 1]]

NonZero(s) == {s[i] : i \in {j \in 1..Len(s) : s[j] # Zero8}}

VARIABLES line, devs, faults, pc, state, found, last, ROM_codes_array, cap, index, count, stored, temperature, readIdx, passes, passLog, call

vars == <<line, devs, faults, pc, state, found, last, ROM_codes_array, cap, index, count, stored, temperature, readIdx, passes, passLog, call>>

NoCall == [ret |-> -1, completed |-> FALSE, at |-> -1, log |-> <<>>, before |-> onewireSearchInit]

\* call holds one call of a function without side effects: its name, its
\* argument and, once it has returned, what it returned
NoPure == [op |-> "none", arg |-> <<>>, ret |-> <<>>]

\* the bus: a population of devices on a working line, or a line held low
InitBus ==
  \/ line = "normal" /\ devs \in Populations
  \/ line = "stuck_low" /\ devs = {}

\* a caller that runs search cycles one by one on a fresh state
InitCycles ==
  /\ pc = "cycles"
  /\ InitBus
  /\ cap = 0
  /\ ROM_codes_array = <<>>

\* a caller of DS18B20_Search with a zeroed array of expected + 1 entries
InitSearch ==
  /\ pc = "search_call"
  /\ InitBus
  /\ cap \in 1..(MaxExpected + 1)
  /\ ROM_codes_array = [i \in 0..(cap - 1) |-> Zero8]

\* a caller of DS18B20_GetTemp; the addressed devices are on the bus
InitGetTemp ==
  /\ pc = "gettemp_call"
  /\ \E s \in TempArrays :
       /\ ROM_codes_array = ArrayOf(s)
       /\ cap = Len(s)
       /\ \/ line = "normal" /\ devs = NonZero(s)
          \/ line = "stuck_low" /\ devs = {}

\* a caller of DS18B20_GetTemp with as many addresses as the uint8_t count
\* has values, then the terminator; the line is held low, so that every
\* sample is determined
InitGetTempLong ==
  /\ pc = "gettemp_call"
  /\ line = "stuck_low"
  /\ devs = {}
  /\ cap = CountRange + 1
  /\ ROM_codes_array = [i \in 0..CountRange |-> IF i < CountRange THEN <<10, 90, 0, 255, 16, 0, 1, 0>> ELSE Zero8]

InitLocals ==
  /\ faults = 0
  /\ state = onewireSearchInit
  /\ found = <<>>
  /\ last = NoCall
  /\ index = 0
  /\ count = 0
  /\ stored = {}
  /\ readIdx = {}
  /\ passes = <<>>
  /\ passLog = <<>>
  /\ temperature = [i \in DOMAIN ROM_codes_array |-> -1]

Init == (InitCycles \/ InitSearch \/ InitGetTemp) /\ InitLocals /\ call = NoPure

\* the devices have answered every reset and every slot so far
faithful == line = "normal" /\ faults = 0

\* the levels DS18B20_Start may sample after a reset pulse: low when a
\* device answers or the line is held low, high when none does
ResetLevels == IF line = "stuck_low" THEN {0} ELSE IF devs = {} THEN {1} ELSE IF faults < MaxFaults THEN {0, 1} ELSE {0}

\* the positions at which the devices may fall silent in a search cycle
DropPoints == IF line = "normal" /\ devs # {} /\ faults < MaxFaults THEN DropPositions \cup {NoDrop} ELSE {NoDrop}

\* the number of failures to answer in a reset sampled at level
Missed(level) == IF devs # {} /\ line = "normal" /\ level = 1 THEN 1 ELSE 0

BusAt(drop) == [line |-> line, active |-> {BitsOfRom(d) : d \in devs}, dropAt |-> drop, log |-> <<>>]

\* the bookkeeping of one searchDevices call with result r on the state st
Called(r, st, level, drop) ==
  /\ state' = r.state
  /\ found' = IF r.completed THEN Append(found, r.state.address) ELSE found
  /\ last' = [ret |-> r.ret, completed |-> r.completed, at |-> r.at, log |-> r.bus.log, before |-> st]
  /\ faults' = IF st.done THEN faults ELSE IF level = 1 THEN faults + Missed(level) ELSE IF drop # NoDrop THEN faults + 1 ELSE faults

\* one searchDevices(sensor, SEARCH_ROM, &state) call by a caller that keeps
\* calling on the same state
Cycle ==
  /\ pc = "cycles"
  /\ Len(found) < MaxFound
  /\ \E level \in ResetLevels, drop \in DropPoints : Called(searchDevices(BusAt(drop), level, SEARCH_ROM, state), state, level, drop)
  /\ UNCHANGED <<line, devs, pc, ROM_codes_array, cap, index, count, stored, temperature, readIdx, passes, passLog, call>>

\* DS18B20_Search, entry: onewireSearchInit, index = 0, count = 0
DS18B20_Search_Enter ==
  /\ pc = "search_call"
  /\ pc' = "search_loop"
  /\ state' = onewireSearchInit
  /\ index' = 0
  /\ count' = 0
  /\ UNCHANGED <<line, devs, faults, found, last, ROM_codes_array, cap, stored, temperature, readIdx, passes, passLog, call>>

\* the condition of the while loop of DS18B20_Search on the value
\* searchDevices returned
searchLoopCond(ret) == ret # 0

\* DS18B20_Search, one evaluation of while (searchDevices(...)) and, when it
\* is non-zero, the loop body; otherwise return 0.  A store at an index
\* outside the caller's array is recorded in stored only.
DS18B20_Search_Iter ==
  /\ pc = "search_loop"
  /\ \E level \in ResetLevels, drop \in DropPoints, ub \in OversizeShift :
       LET r == searchDevices(BusAt(drop), level, SEARCH_ROM, state)
       IN /\ Called(r, state, level, drop)
          /\ IF searchLoopCond(r.ret)
             THEN /\ ROM_codes_array' = IF index \in DOMAIN ROM_codes_array THEN [ROM_codes_array EXCEPT ![index] = Pack64(r.state.address, ub)] ELSE ROM_codes_array
                  /\ stored' = stored \cup {index}
                  /\ count' = (count + 1) % CountRange
                  /\ index' = (index + 1) % CountRange
                  /\ pc' = "search_loop"
             ELSE /\ pc' = "search_returned"
                  /\ UNCHANGED <<ROM_codes_array, stored, count, index>>
  /\ UNCHANGED <<line, devs, cap, temperature, readIdx, passes, passLog, call>>

\* what DS18B20_Search returns: "return 0"
DS18B20_Search_return == 0

\* DS18B20_GetTemp, entry: count = 0
DS18B20_GetTemp_Enter ==
  /\ pc = "gettemp_call"
  /\ pc' = "gettemp_loop"
  /\ count' = 0
  /\ UNCHANGED <<line, devs, faults, state, found, last, ROM_codes_array, cap, index, stored, temperature, readIdx, passes, passLog, call>>

\* the bus slots of one pass of the while loop of DS18B20_GetTemp for the
\* 64-bit address v; level1, level2 are the levels sampled by the two
\* DS18B20_Start calls (their results are not used), bits1 and bits2 the
\* levels sampled by the two DS18B20_readByte calls
getTempSlots(v, level1, level2, bits1, bits2) ==
  LET s1 == <<<<"reset", DS18B20_Start(level1)>>>>
      s2 == DS18B20_writeData(s1, MATCH_ROM)
      s3 == sendRom(s2, v)
      s4 == DS18B20_writeData(s3, CONVERT_T)
      s5 == Append(s4, <<"reset", DS18B20_Start(level2)>>)
      s6 == DS18B20_writeData(s5, MATCH_ROM)
      s7 == sendRom(s6, v)
      s8 == DS18B20_writeData(s7, READ_SCRATCHPAD)
      s9 == logReads(s8, bits1)
  IN logReads(s9, bits2)

\* the bytes on the line in the two DS18B20_readByte calls: a held-low line
\* reads 0, a line no device drives reads 1, an addressed device sends its
\* scratchpad
Scratch(level2) == IF line = "stuck_low" THEN {<<0, 0>>} ELSE IF level2 = 1 THEN {<<255, 255>>} ELSE ScratchPairs

\* the condition of the while loop of DS18B20_GetTemp on the entry read
getTempCond(v) == v # Zero8

\* DS18B20_GetTemp, one evaluation of while (ROM_codes_array[count] != 0)
\* and, when it holds, the loop body; otherwise return 0
DS18B20_GetTemp_Iter ==
  /\ pc = "gettemp_loop"
  /\ Len(passes) < MaxPasses
  /\ count \in DOMAIN ROM_codes_array
  /\ readIdx' = readIdx \cup {count}
  /\ IF getTempCond(ROM_codes_array[count])
     THEN \E level1 \in ResetLevels, level2 \in ResetLevels :
            \E sp \in Scratch(level2) :
              LET bits1 == BitsOf(sp[1])
                  bits2 == BitsOf(sp[2])
                  Temperature_byte_1 == DS18B20_readByte(bits1)
                  Temperature_byte_2 == DS18B20_readByte(bits2)
              IN /\ passLog' = getTempSlots(ROM_codes_array[count], level1, level2, bits1, bits2)
                 /\ passes' = Append(passes, count)
                 /\ temperature' = [temperature EXCEPT ![count] = rawToTemp(Temperature_byte_1, Temperature_byte_2)]
                 /\ faults' = faults + Missed(level1) + Missed(level2)
                 /\ count' = (count + 1) % CountRange
                 /\ pc' = "gettemp_loop"
     ELSE /\ pc' = "gettemp_returned"
          /\ UNCHANGED <<passes, passLog, temperature, count, faults>>
  /\ UNCHANGED <<line, devs, state, found, last, ROM_codes_array, cap, index, stored, call>>

Next == Cycle \/ DS18B20_Search_Enter \/ DS18B20_Search_Iter \/ DS18B20_GetTemp_Enter \/ DS18B20_GetTemp_Iter

Spec == Init /\ [][Next]_vars

\* DS18B20_GetTemp alone, on the short arrays and on the long one
NextGetTemp == DS18B20_GetTemp_Enter \/ DS18B20_GetTemp_Iter

InitGetTempAll == (InitGetTemp \/ InitGetTempLong) /\ InitLocals /\ call = NoPure

SpecGetTemp == InitGetTempAll /\ [][NextGetTemp]_vars

\* ------------------------------------------------------------------------
\* Single calls of the functions without side effects

\* addresses a search cycle may leave in the search state
PackAddrs == Universe \cup {<<0, 0, 0, 0, 16, 0, 1, 128>>, <<40, 255, 100, 129, 22, 3, 0, 77>>, <<0, 0, 0, 0, 200, 0, 0, 1>>}

\* ROM codes handed to addressValid: seven bytes and every value of byte 7
RomPayloads == {<<40, 255, 100, 30, 15, 119, 3>>, <<40, 0, 0, 0, 0, 0, 0>>, <<16, 90, 0, 255, 16, 0, 1>>, <<0, 0, 0, 0, 0, 0, 0>>}

RomCodes == {Append(pl, c) : pl \in RomPayloads, c \in 0..255}

\* the running CRC values crcGenerator is called with
CrcInits == {0, 1, 140, 255}

\* what searchNext stores: at bitPosition of the address buffer the value 0
\* or 1 read from the bus or chosen at a conflict, or the value
\* address[byteIndex] & (1 << bitIndex) replayed at a conflict
StoreArgs == {[address |-> a, bitPosition |-> p, bitValue |-> v] : a \in PackAddrs, p \in 0..63, v \in {0, 1}} \cup {[address |-> a, bitPosition |-> p, bitValue |-> AndMask(a[(p \div 8) + 1], p % 8)] : a \in PackAddrs, p \in 0..63}

PureCalls ==
  {[op |-> "Pack64", arg |-> a, ret |-> <<>>] : a \in PackAddrs}
  \cup {[op |-> "loopback", arg |-> b, ret |-> <<>>] : b \in 0..255}
  \cup {[op |-> "addressValid", arg |-> r, ret |-> <<>>] : r \in RomCodes}
  \cup {[op |-> "crcGenerator", arg |-> <<c, b>>, ret |-> <<>>] : c \in CrcInits, b \in 0..255}
  \cup {[op |-> "storeBit", arg |-> a, ret |-> <<>>] : a \in StoreArgs}

InitPure ==
  /\ pc = "pure_call"
  /\ call \in PureCalls
  /\ line = "normal"
  /\ devs = {}
  /\ cap = 0
  /\ ROM_codes_array = <<>>
  /\ InitLocals

\* the bits the eight write slots of DS18B20_writeData(data) carry, handed
\* back by the read slots of a loopback bus
Loopback(data) == LET L == DS18B20_writeData(<<>>, data) IN [k \in 1..8 |-> L[k][2]]

\* DS18B20_Search packs the address (lines "ROM_codes_array[index] |= ..."),
\* DS18B20_GetTemp sends the packed value after Match ROM
Pack64_Apply ==
  /\ pc = "pure_call"
  /\ call.op = "Pack64"
  /\ \E ub \in OversizeShift :
       LET v == Pack64(call.arg, ub)
       IN call' = [call EXCEPT !.ret = [stored |-> v, sent |-> sendRom(<<>>, v)]]
  /\ pc' = "pure_returned"
  /\ UNCHANGED <<line, devs, faults, state, found, last, ROM_codes_array, cap, index, count, stored, temperature, readIdx, passes, passLog>>

\* DS18B20_writeData(data), then DS18B20_readByte on the loopback bus
Loopback_Apply ==
  /\ pc = "pure_call"
  /\ call.op = "loopback"
  /\ call' = [call EXCEPT !.ret = DS18B20_readByte(Loopback(call.arg))]
  /\ pc' = "pure_returned"
  /\ UNCHANGED <<line, devs, faults, state, found, last, ROM_codes_array, cap, index, count, stored, temperature, readIdx, passes, passLog>>

addressValid_Apply ==
  /\ pc = "pure_call"
  /\ call.op = "addressValid"
  /\ call' = [call EXCEPT !.ret = addressValid(call.arg)]
  /\ pc' = "pure_returned"
  /\ UNCHANGED <<line, devs, faults, state, found, last, ROM_codes_array, cap, index, count, stored, temperature, readIdx, passes, passLog>>

crcGenerator_Apply ==
  /\ pc = "pure_call"
  /\ call.op = "crcGenerator"
  /\ call' = [call EXCEPT !.ret = crcGenerator(call.arg[1], call.arg[2])]
  /\ pc' = "pure_returned"
  /\ UNCHANGED <<line, devs, faults, state, found, last, ROM_codes_array, cap, index, count, stored, temperature, readIdx, passes, passLog>>

\* searchNext, "Write bit into address", for one bit position
storeBit_Apply ==
  /\ pc = "pure_call"
  /\ call.op = "storeBit"
  /\ call' = [call EXCEPT !.ret = storeBit(call.arg.address, call.arg.bitPosition, call.arg.bitValue)]
  /\ pc' = "pure_returned"
  /\ UNCHANGED <<line, devs, faults, state, found, last, ROM_codes_array, cap, index, count, stored, temperature, readIdx, passes, passLog>>

NextPure == Pack64_Apply \/ Loopback_Apply \/ addressValid_Apply \/ crcGenerator_Apply \/ storeBit_Apply

SpecPure == InitPure /\ [][NextPure]_vars

\* ------------------------------------------------------------------------
\* Properties

Range(q) == {q[i] : i \in 1..Len(q)}

NoDuplicates(q) == \A i, j \in 1..Len(q) : i # j => q[i] # q[j]

InSearch == pc \in {"search_loop", "search_returned"}

InGetTemp == pc \in {"gettemp_loop", "gettemp_returned"}

\* C1: on a faithful bus of N >= 1 devices with distinct addresses, search
\* cycles run on one state from a fresh state discover every address in
\* exactly one cycle each (no address twice, only addresses of the bus), and
\* done is set exactly when the last of them has been discovered, so that
\* no later cycle discovers anything.
C1_EveryDeviceOnce == (pc = "cycles" /\ faithful /\ devs # {}) => (Range(found) \subseteq devs /\ NoDuplicates(found) /\ (state.done <=> Range(found) = devs))

\* C2: when DS18B20_Search returns on a faithful bus of N >= 1 devices (in
\* an array with room for them), entries 0..N-1 of ROM_codes_array hold the
\* N discovered addresses, entry i the address the i-th successful cycle
\* discovered, byte 0 most significant.
C2_ArrayHoldsDiscovered == (pc = "search_returned" /\ faithful /\ devs # {} /\ Cardinality(devs) <= cap) => (Len(found) = Cardinality(devs) /\ \A i \in 0..(Cardinality(devs) - 1) : i \in stored /\ ROM_codes_array[i] = found[i + 1])

\* C3: on an empty bus (no presence pulse on any reset) DS18B20_Search
\* stores no address in ROM_codes_array.
C3_EmptyBusStoresNothing == (InSearch /\ line = "normal" /\ devs = {}) => stored = {}

\* C4: DS18B20_Search never stores at an index at or beyond the capacity of
\* the caller's array, whatever the bus population.
C4_NoStorePastCapacity == InSearch => \A i \in stored : i < cap

\* a < b as 64-bit integers, byte 0 most significant
LessNumeric(a, b) == \E i \in 1..8 : a[i] < b[i] /\ \A j \in 1..(i - 1) : a[j] = b[j]

\* x < y for bytes compared from bit 0 upwards
LessBitsUp(x, y) == \E k \in 0..7 : Bit(x, k) < Bit(y, k) /\ \A m \in 0..(k - 1) : Bit(x, m) = Bit(y, m)

\* a < b compared bit by bit in search order (bit 0 of byte 0 first)
LessSearchOrder(a, b) == \E i \in 1..8 : LessBitsUp(a[i], b[i]) /\ \A j \in 1..(i - 1) : a[j] = b[j]

\* C5 as claimed: each discovered address is numerically greater (byte 0
\* most significant) than the one discovered before it.
C5_AscendingNumeric == pc = "cycles" => \A i \in 1..(Len(found) - 1) : LessNumeric(found[i], found[i + 1])

\* C5 amended: each discovered address is greater than the one discovered
\* before it when the two are compared bit by bit in search order, bit 0 of
\* byte 0 first and 0 before 1.
C5_AscendingSearchOrder == pc = "cycles" => \A i \in 1..(Len(found) - 1) : LessSearchOrder(found[i], found[i + 1])

\* two devices discovered one after the other on a faithful bus, the second
\* numerically smaller than the first
C5_Witness == pc = "cycles" /\ faithful /\ Len(found) >= 2 /\ LessNumeric(found[2], found[1]) /\ Range(found) \subseteq devs

\* C6: on a faithful bus with exactly one device, once a cycle has run from
\* the fresh state, state.address is that device's address, done is true and
\* the device is the one discovery.
C6_SingleDevice == (pc = "cycles" /\ faithful /\ Cardinality(devs) = 1 /\ last.ret # -1) => (state.done /\ devs = {state.address} /\ found = <<state.address>>)

\* the first cycle on a single device whose address has bits set in byte 0
\* and byte 7
C6_Witness == pc = "cycles" /\ faithful /\ devs = {<<10, 90, 0, 255, 16, 0, 1, 128>>} /\ last.before = onewireSearchInit /\ last.completed /\ state.done

\* what searchDevices returns when the search is complete: done already
\* true, or no presence pulse
CompleteOutcomes == {searchDevices(BusAt(NoDrop), 0, SEARCH_ROM, [onewireSearchInit EXCEPT !.done = TRUE]).ret, searchDevices(BusAt(NoDrop), 1, SEARCH_ROM, onewireSearchInit).ret}

\* the last searchDevices call read (1,1) at bit position last.at
Aborted == last.at \in 0..63

WrittenByte(L, s) == IF \A j \in 0..7 : L[s + j][1] = "w" THEN L[s][2] + 2 * L[s + 1][2] + 4 * L[s + 2][2] + 8 * L[s + 3][2] + 16 * L[s + 4][2] + 32 * L[s + 5][2] + 64 * L[s + 6][2] + 128 * L[s + 7][2] ELSE -1

\* the eight bytes written from slot s on, in the order written
WrittenRom(L, s) == [i \in 1..8 |-> WrittenByte(L, s + 8 * (i - 1))]

\* the index of the first zero entry of the address array
FirstZero == CHOOSE k \in DOMAIN ROM_codes_array : ROM_codes_array[k] = Zero8 /\ \A j \in DOMAIN ROM_codes_array : ROM_codes_array[j] = Zero8 => k <= j

\* the entries addressed so far are entries 0..n-1, in that order
InOrder(q) == \A i \in 1..Len(q) : q[i] = i - 1

\* C8: in DS18B20_GetTemp a reset without presence pulse aborts the read of
\* that address: the slot after such a reset is not a write (the next slot, if
\* any, is the next reset), and no temperature is stored for the address.
C8_NoPresenceAbortsRead ==
  (InGetTemp /\ passes # <<>>) => \A j \in 1..Len(passLog) :
                 passLog[j] = <<"reset", 0>> => /\ (j = Len(passLog) \/ passLog[j + 1][1] = "reset")
                                               /\ temperature[passes[Len(passes)]] = -1

\* C9: with the first zero entry of the address array at index k,
\* DS18B20_GetTemp addresses entries 0..k-1 and no other, in that order (each
\* pass sends the ROM code of its entry after Match ROM, first byte sent =
\* most significant byte), stores a temperature for exactly the entries it
\* has addressed, has addressed all k when it returns, and reads no entry at
\* an index greater than k.
C9_StopsAtTerminator ==
  InGetTemp => LET k == FirstZero
               IN /\ Len(passes) <= k
                  /\ InOrder(passes)
                  /\ (passes # <<>> => WrittenRom(passLog, 10) = ROM_codes_array[Len(passes) - 1])
                  /\ {j \in DOMAIN temperature : temperature[j] # -1} = 0..(Len(passes) - 1)
                  /\ (pc = "gettemp_returned" => Len(passes) = k)
                  /\ \A j \in readIdx : j <= k

\* C10: the slots of one pass of DS18B20_GetTemp are: reset, 0x55, the eight
\* address bytes most significant first, 0x44, reset, 0x55, the same eight
\* bytes, 0xBE, then sixteen read slots (two bytes) and nothing else; so no
\* slot before the end of 0xBE is a read.
C10_ReadSequence ==
  (InGetTemp /\ passes # <<>>) =>
     LET L == passLog
         v == ROM_codes_array[passes[Len(passes)]]
     IN /\ v # Zero8
        /\ Len(L) = 178
        /\ L[1][1] = "reset"
        /\ WrittenByte(L, 2) = 85
        /\ \A b \in 1..8 : WrittenByte(L, 10 + 8 * (b - 1)) = v[b]
        /\ WrittenByte(L, 74) = 68
        /\ L[82][1] = "reset"
        /\ WrittenByte(L, 83) = 85
        /\ \A b \in 1..8 : WrittenByte(L, 91 + 8 * (b - 1)) = v[b]
        /\ WrittenByte(L, 155) = 190
        /\ \A j \in 163..178 : L[j][1] = "r"

\* a pass for an address whose bytes are not a palindrome, answered by a
\* device that sends a scratchpad
C10_Witness == InGetTemp /\ passes = <<0>> /\ ROM_codes_array[0] = <<2, 90, 0, 255, 16, 0, 1, 128>> /\ temperature[0] = 25

\* ------------------------------------------------------------------------
\* the byte carried by the eight read slots of log L from slot s on, least
\* significant bit first
ReadByteAt(L, s) == L[s][2] + 2 * L[s + 1][2] + 4 * L[s + 2][2] + 8 * L[s + 3][2] + 16 * L[s + 4][2] + 32 * L[s + 5][2] + 64 * L[s + 6][2] + 128 * L[s + 7][2]

\* the 16-bit two's-complement value of low byte lo and high byte hi,
\* arithmetically shifted right by 4
SignedWholeDegrees(lo, hi) == LET raw == hi * 256 + lo IN IF raw >= 32768 THEN -((65536 - raw + 15) \div 16) ELSE raw \div 16

\* C11: the value DS18B20_GetTemp stores for a sensor is the signed
\* whole-degree reading of the two scratchpad bytes read in the pass (first
\* byte low, second byte high, two's complement, arithmetic shift by 4).
C11_SignedReading ==
  (InGetTemp /\ passes # <<>>) => temperature[passes[Len(passes)]] = SignedWholeDegrees(ReadByteAt(passLog, 163), ReadByteAt(passLog, 171))

\* C13: on a line held low at every sample the reset reports "no device":
\* a searchDevices call that performs a reset ends after the reset, its log
\* being the one reset slot without presence.
C13_StuckLowReportsNoDevice == (line = "stuck_low" /\ last.ret # -1 /\ ~last.before.done) => last.log = <<<<"reset", 0>>>>

\* C14: a reset without presence pulse is the last slot of its searchDevices
\* call: neither the command byte nor a bit slot follows it.
C14_NoPresenceNoWrites == \A j \in 1..Len(last.log) : last.log[j] = <<"reset", 0>> => j = Len(last.log)

\* a call on a bus with devices whose presence pulse was missed
C14_Witness == last.log = <<<<"reset", 0>>>> /\ devs # {} /\ last.ret = 1

\* C15: the value DS18B20_Search returns is the number of devices its cycles
\* discovered, which is the number of addresses it stored.
C15_ReturnsCount == pc = "search_returned" => (DS18B20_Search_return = Len(found) /\ DS18B20_Search_return = Cardinality(stored))

\* the search state is at rest: no cycle has run yet, or done is true
AtRest == last.ret = -1 \/ state.done

\* C16: at rest state.address is the address of the last discovery, or zero
\* when there was none; with done true on a working line it is the address
\* of a device of the bus.  Aborted cycles and missed presence pulses before
\* the rest change nothing of this.
C16_AddressAtRest ==
  (pc \in {"cycles", "search_loop", "search_returned"} /\ AtRest) =>
     /\ (found = <<>> => state.address = Zero8 /\ ~state.done)
     /\ (found # <<>> => state.address = found[Len(found)])
     /\ (line = "normal" /\ state.done => state.address \in devs)

\* done after three discoveries, with a cycle that failed on the way
C16_Witness == pc = "cycles" /\ state.done /\ Len(found) = 3 /\ faults = 1 /\ line = "normal"

\* the first slot of bit position p in the log of a search cycle
SlotOf(p) == 10 + 3 * p

\* C20: in a search cycle on a bus whose devices answer, at a conflict
\* (both reads 0) at position p the bit written is: the bit p of the address
\* the state held before the cycle when p is below the last_zero_branch it
\* held, 1 when p equals it, 0 when p is above it.
C20_ConflictRule ==
  (pc = "cycles" /\ faithful /\ last.ret # -1) =>
     \A p \in 0..63 :
        (SlotOf(p) + 2 <= Len(last.log) /\ last.log[SlotOf(p)] = <<"r", 0>> /\ last.log[SlotOf(p) + 1] = <<"r", 0>>) =>
           last.log[SlotOf(p) + 2] = <<"w", IF p = last.before.last_zero_branch THEN 1 ELSE IF p < last.before.last_zero_branch THEN DevBit(last.before.address, p) ELSE 0>>

\* the call of op has returned
Returned(op) == pc = "pure_returned" /\ call.op = op

\* C12: for an address a[0..7] of the search state the value DS18B20_Search
\* stores is the sum of a[i]*256^(7-i), i.e. its eight base-256 digits, most
\* significant first, are a[0..7]; and the eight bytes DS18B20_GetTemp sends
\* for the stored value are a[0], ..., a[7] in that order.
C12_PackByteOrder == Returned("Pack64") => (call.ret.stored = call.arg /\ WrittenRom(call.ret.sent, 1) = call.arg)

\* C17: on a loopback bus DS18B20_readByte returns the value passed to
\* DS18B20_writeData, for all 256 byte values.
C17_LoopbackRoundTrip == Returned("loopback") => call.ret = call.arg

\* a byte with different ends read back
C17_Witness == Returned("loopback") /\ call.arg = 141 /\ call.ret = 141

\* one byte folded into the running CRC bit by bit: shift right, XOR 0x8C
\* when the bit shifted out is set
RECURSIVE CrcShift(_, _)
CrcShift(crc, n) == IF n = 0 THEN crc ELSE CrcShift(IF crc % 2 = 1 THEN Xor8(crc \div 2, 140) ELSE crc \div 2, n - 1)

CrcBitwise(crc, b) == CrcShift(Xor8(crc, b), 8)

\* the CRC-8 of bytes i+1..n of r folded into crc (a byte), byte by byte
RECURSIVE CrcOverFrom(_, _, _, _)
CrcOverFrom(crc, r, i, n) == IF i = n \/ crc \notin 0..255 THEN crc ELSE CrcOverFrom(CrcBitwise(crc, r[i + 1]), r, i + 1, n)

\* the CRC-8 of bytes 1..n of r, from initial value 0
CrcOver(r, n) == CrcOverFrom(0, r, 0, n)

\* C18: addressValid returns 0 exactly when byte 7 equals the CRC-8 of
\* bytes 0..6 from initial value 0.
C18_ValidIffCrcMatches == Returned("addressValid") => (call.ret = 0 <=> call.arg[8] = CrcOver(call.arg, 7))

\* a ROM code of a DS18B20 family device (0x28) that passes
C18_Witness == Returned("addressValid") /\ call.ret = 0 /\ call.arg[1] = 40 /\ call.arg[2] = 255

\* C19: crcGenerator returns table[c XOR b] for every initial CRC c and
\* input b, and with c = 0 this is the bit-by-bit Dallas/Maxim CRC-8 of b.
C19_TableMatchesBitwise ==
  Returned("crcGenerator") =>
     LET c == call.arg[1]
         b == call.arg[2]
     IN /\ call.ret = crc8_table[Xor8(c, b) + 1]
        /\ (c = 0 => call.ret = CrcBitwise(0, b))

\* a call with a non-zero running CRC
C19_Witness == Returned("crcGenerator") /\ call.arg = <<140, 255>> /\ call.ret = crc8_table[116]

\* C21: storing the bit of position p changes at most bit p of the address
\* buffer: every other bit of the 64 keeps its value.
C21_StoreFrame == Returned("storeBit") => \A q \in 0..63 : q # call.arg.bitPosition => DevBit(call.ret, q) = DevBit(call.arg.address, q)

\* the positions of the last cycle at which both reads were 0 and a 0 was
\* written
ZeroBranches == {p \in 0..63 : SlotOf(p) + 2 <= Len(last.log) /\ last.log[SlotOf(p)] = <<"r", 0>> /\ last.log[SlotOf(p) + 1] = <<"r", 0>> /\ last.log[SlotOf(p) + 2] = <<"w", 0>>}

Max(S) == CHOOSE x \in S : \A y \in S : y <= x

\* C22: after a cycle that completed all 64 positions: when a conflict of
\* the cycle was resolved by 0, last_zero_branch is the highest such position
\* and done is false; otherwise done is true and last_zero_branch has the
\* value it had before the cycle.  last_zero_branch is always in -1..63.
C22_BranchUpdate ==
  /\ state.last_zero_branch \in -1..63
  /\ last.completed => IF ZeroBranches # {} THEN state.last_zero_branch = Max(ZeroBranches) /\ ~state.done
                       ELSE state.done /\ state.last_zero_branch = last.before.last_zero_branch

\* a cycle without zero branch that ends a search of several devices
C22_Witness == pc = "cycles" /\ last.completed /\ ZeroBranches = {} /\ state.done /\ state.last_zero_branch >= 0 /\ Len(found) >= 2

\* what searchDevices returns for a cycle that reads all 64 bits of the one
\* device d of a working bus and discovers its address
DiscoveryOutcome(d) == searchDevices([line |-> "normal", active |-> {BitsOfRom(d)}, dropAt |-> NoDrop, log |-> <<>>], 0, SEARCH_ROM, onewireSearchInit).ret

\* C23: the value searchDevices returns for a cycle aborted by a (1,1)
\* reading differs from the value it returns for a cycle that discovered an
\* address.
C23_FaultDistinctFromDiscovery == Aborted => \A d \in Universe : last.ret # DiscoveryOutcome(d)

\* C24: a cycle that discovers an address puts on the bus one reset, the
\* eight write slots of 0xF0 least significant bit first, then for each
\* position 0..63 in increasing order two read slots and one write slot that
\* carries the bit the address buffer holds for the position, and nothing
\* else; a cycle that reads (1,1) ends with those two read slots.
C24_SearchSequence ==
  /\ last.completed =>
       /\ Len(last.log) = 201
       /\ last.log[1] = <<"reset", 1>>
       /\ WrittenByte(last.log, 2) = 240
       /\ \A p \in 0..63 :
            /\ last.log[SlotOf(p)][1] = "r"
            /\ last.log[SlotOf(p) + 1][1] = "r"
            /\ last.log[SlotOf(p) + 2] = <<"w", DevBit(state.address, p)>>
  /\ Aborted =>
       /\ Len(last.log) = SlotOf(last.at) + 1
       /\ last.log[SlotOf(last.at)] = <<"r", 1>>
       /\ last.log[SlotOf(last.at) + 1] = <<"r", 1>>
       /\ WrittenByte(last.log, 2) = 240

\* the third discovery of a search, made by a cycle that started with
\* last_zero_branch = 63
C24_Witness == pc = "cycles" /\ last.completed /\ Len(found) = 3 /\ last.before.last_zero_branch = 63 /\ state.address[1] = 2

\* C25: a searchDevices call on a state with done true returns 1, performs
\* no bus operation and leaves done, last_zero_branch and address as they
\* were.
C25_DoneIsFinal == (last.ret # -1 /\ last.before.done) => (last.ret = 1 /\ last.log = <<>> /\ state = last.before /\ state.done)

\* a call made after the search of two devices was done
C25_Witness == pc = "cycles" /\ last.before.done /\ last.ret = 1 /\ Len(found) = 2 /\ faithful

====
